---- MODULE Spec2Model ----
(***************************************************************************)
(* Model of two pieces of the amethyst engine:                             *)
(*   amethyst_audio/src/output.rs    - Output and its four play methods    *)
(*   amethyst_input/src/controller.rs - ControllerEvent -> InputEvent      *)
(***************************************************************************)
EXTENDS Integers, Sequences, FiniteSets, TLC

VARIABLES
    output,          \* the Output struct: name and stream_handle
    device_present,  \* whether the output device behind stream_handle exists
    sinks,           \* every Sink created through the Output, by handle
    pc,              \* per caller thread: position inside its play call
    call,            \* per caller thread: arguments and locals of its call
    made,            \* per caller thread: number of play calls started
    event,           \* the ControllerEvent being converted
    input_event,     \* the InputEvent produced from event
    prev_event,      \* the ControllerEvent converted before event
    prev_input       \* the InputEvent produced from prev_event

audio_vars == <<output, device_present, sinks, pc, call, made>>
input_vars == <<event, input_event, prev_event, prev_input>>
vars == <<output, device_present, sinks, pc, call, made,
          event, input_event, prev_event, prev_input>>

----------------------------------------------------------------------------
(* Bounds *)

\* largest repeat count n a caller passes (n is a u16 in the code)
MaxN == 2
\* number of play calls made on the Output, over all caller threads
MaxCalls == 2
\* largest joystick instance id `which` (a u32 in the code)
MaxWhich == 1

----------------------------------------------------------------------------
(* amethyst_input: controller.rs *)

ControllerAxis ==
    {"LeftX", "LeftY", "RightX", "RightY", "LeftTrigger", "RightTrigger"}

ControllerButton ==
    {"A", "B", "X", "Y", "DPadDown", "DPadLeft", "DPadRight", "DPadUp",
     "LeftShoulder", "RightShoulder", "LeftStick", "RightStick",
     "Back", "Start", "Guide"}

\* representatives of the f32 axis value (documented range -32768 to 32767)
AxisValues == {-32768, 0, 32767}

Which == 0..MaxWhich

ControllerEvent ==
    [variant : {"ControllerAxisMoved"}, which : Which,
     axis : ControllerAxis, value : AxisValues]
    \cup [variant : {"ControllerButtonPressed", "ControllerButtonReleased"},
          which : Which, button : ControllerButton]
    \cup [variant : {"ControllerDisconnected", "ControllerConnected"},
          which : Which]

\* no event / no conversion result yet
NoEvent == [variant |-> "None"]

\* mutant: the axis value is not copied
FromDropValue(c) ==
    CASE c.variant = "ControllerAxisMoved" ->
            [variant |-> "ControllerAxisMoved", which |-> c.which,
             axis |-> c.axis, value |-> 0]
      [] c.variant = "ControllerButtonPressed" ->
            [variant |-> "ControllerButtonPressed", which |-> c.which,
             button |-> c.button]
      [] c.variant = "ControllerButtonReleased" ->
            [variant |-> "ControllerButtonReleased", which |-> c.which,
             button |-> c.button]
      [] c.variant = "ControllerConnected" ->
            [variant |-> "ControllerConnected", which |-> c.which]
      [] c.variant = "ControllerDisconnected" ->
            [variant |-> "ControllerDisconnected", which |-> c.which]

\* mutant: a disconnect is reported as a connect
FromMergeConnection(c) ==
    CASE c.variant = "ControllerAxisMoved" ->
            [variant |-> "ControllerAxisMoved", which |-> c.which,
             axis |-> c.axis, value |-> c.value]
      [] c.variant = "ControllerButtonPressed" ->
            [variant |-> "ControllerButtonPressed", which |-> c.which,
             button |-> c.button]
      [] c.variant = "ControllerButtonReleased" ->
            [variant |-> "ControllerButtonReleased", which |-> c.which,
             button |-> c.button]
      [] c.variant = "ControllerConnected" ->
            [variant |-> "ControllerConnected", which |-> c.which]
      [] c.variant = "ControllerDisconnected" ->
            [variant |-> "ControllerConnected", which |-> c.which]

\* impl From<&ControllerEvent> for InputEvent: the match of from()
From(c) ==
    CASE c.variant = "ControllerAxisMoved" ->
            [variant |-> "ControllerAxisMoved", which |-> c.which,
             axis |-> c.axis, value |-> c.value]
      [] c.variant = "ControllerButtonPressed" ->
            [variant |-> "ControllerButtonPressed", which |-> c.which,
             button |-> c.button]
      [] c.variant = "ControllerButtonReleased" ->
            [variant |-> "ControllerButtonReleased", which |-> c.which,
             button |-> c.button]
      [] c.variant = "ControllerConnected" ->
            [variant |-> "ControllerConnected", which |-> c.which]
      [] c.variant = "ControllerDisconnected" ->
            [variant |-> "ControllerDisconnected", which |-> c.which]

\* the event system hands the next controller event to the conversion
Receive ==
    /\ input_event # NoEvent
    /\ \E c \in ControllerEvent :
          /\ event' = c
          /\ input_event' = NoEvent
    /\ prev_event' = event
    /\ prev_input' = input_event
    /\ UNCHANGED audio_vars

\* InputEvent::from(&event)
Convert ==
    /\ input_event = NoEvent
    /\ input_event' = From(event)
    /\ UNCHANGED <<event, prev_event, prev_input>>
    /\ UNCHANGED audio_vars

----------------------------------------------------------------------------
(* amethyst_audio: output.rs *)

\* caller threads sharing one &Output
Threads == {1, 2}

\* Source { bytes }: the test assets, one decodable and one not
Sources == {"sound_test.wav", "sound_test.fake"}

\* f32 volumes: 0.0 is silent, 1.0 is unchanged
Volumes == {0, 1}

TryApis == {"try_play_once", "try_play_n_times"}
SilentApis == {"play_once", "play_n_times"}

\* whether Sink::append can decode the bytes of the source
Decodes(source) == source # "sound_test.fake"

\* a call is named by its thread and its rank among that thread's calls
NoId == <<0, 0>>

Total(f) == f[1] + f[2]

NoCall ==
    [id |-> NoId, api |-> "none", source |-> "none", volume |-> 0, n |-> 0, i |-> 0,
     sink |-> NoId, spawns |-> 0, attempts |-> 0, detaches |-> 0,
     try_result |-> "none", returned |-> "none", logged |-> 0]

\* try_play_n_times returns res to whoever called it
Returning(c, res) ==
    [c EXCEPT !.try_result = res,
              !.returned = IF c.api \in TryApis THEN res ELSE "none"]

AfterTry(c) == IF c.api \in TryApis THEN "returned" ELSE "wrapper"

\* a play method is entered; all four end up in try_play_n_times
Enter(t, api, source, volume, n) ==
    /\ pc[t] \in {"idle", "returned"}
    /\ Total(made) < MaxCalls
    /\ made' = [made EXCEPT ![t] = @ + 1]
    /\ call' = [call EXCEPT ![t] =
                  [NoCall EXCEPT !.id = <<t, made[t] + 1>>,
                                 !.api = api, !.source = source,
                                 !.volume = volume, !.n = n]]
    /\ pc' = [pc EXCEPT ![t] = "spawn"]
    /\ UNCHANGED <<output, device_present, sinks>>
    /\ UNCHANGED input_vars

\* Output::try_play_once(source, volume)
TryPlayOnce(t) ==
    \E source \in Sources, volume \in Volumes :
        Enter(t, "try_play_once", source, volume, 1)

\* mutant: play_once plays the sound twice
PlayOnceTwice(t) ==
    \E source \in Sources, volume \in Volumes :
        Enter(t, "play_once", source, volume, 2)

\* Output::play_once(source, volume)
PlayOnce(t) ==
    \E source \in Sources, volume \in Volumes :
        Enter(t, "play_once", source, volume, 1)

\* Output::play_n_times(source, volume, n)
PlayNTimes(t) ==
    \E source \in Sources, volume \in Volumes, n \in 0..MaxN :
        Enter(t, "play_n_times", source, volume, n)

\* Output::try_play_n_times(source, volume, n)
TryPlayNTimes(t) ==
    \E source \in Sources, volume \in Volumes, n \in 0..MaxN :
        Enter(t, "try_play_n_times", source, volume, n)

\* Sink::try_new: a sink nobody else holds; its handle is named after the
\* call that created it
NewSink(t) == [owner |-> call[t].id, queue |-> <<>>, status |-> "owned"]

\* mutant: the errors of the two steps are mapped to each other's kind
TrySpawnSinkWrongKind(t) ==
    /\ pc[t] = "spawn"
    /\ IF device_present
         THEN /\ sinks' = sinks @@ (call[t].id :> NewSink(t))
              /\ call' = [call EXCEPT ![t].sink = call[t].id,
                                      ![t].spawns = @ + 1]
              /\ pc' = [pc EXCEPT ![t] = "append"]
         ELSE /\ call' = [call EXCEPT ![t] =
                    Returning([@ EXCEPT !.spawns = @ + 1], "DecoderError")]
              /\ pc' = [pc EXCEPT ![t] = AfterTry(call[t])]
              /\ UNCHANGED sinks
    /\ UNCHANGED <<output, device_present, made>>
    /\ UNCHANGED input_vars

\* mutant: one sink is kept per Output and reused by every call
TrySpawnSinkShared(t) ==
    /\ pc[t] = "spawn"
    /\ IF device_present
         THEN /\ sinks' = IF DOMAIN sinks = {}
                              THEN (call[t].id :> NewSink(t)) ELSE sinks
              /\ call' = [call EXCEPT
                    ![t].sink = IF DOMAIN sinks = {} THEN call[t].id
                                ELSE CHOOSE h \in DOMAIN sinks : TRUE,
                    ![t].spawns = @ + 1]
              /\ pc' = [pc EXCEPT ![t] = "append"]
         ELSE /\ call' = [call EXCEPT ![t] =
                    Returning([@ EXCEPT !.spawns = @ + 1], "PlayError")]
              /\ pc' = [pc EXCEPT ![t] = AfterTry(call[t])]
              /\ UNCHANGED sinks
    /\ UNCHANGED <<output, device_present, made>>
    /\ UNCHANGED input_vars

\* let sink = self.try_spawn_sink().map_err(OutputError::PlayError)?
TrySpawnSink(t) ==
    /\ pc[t] = "spawn"
    /\ IF device_present
         THEN /\ sinks' = sinks @@ (call[t].id :> NewSink(t))
              /\ call' = [call EXCEPT ![t].sink = call[t].id,
                                      ![t].spawns = @ + 1]
              /\ pc' = [pc EXCEPT ![t] = "append"]
         ELSE /\ call' = [call EXCEPT ![t] =
                    Returning([@ EXCEPT !.spawns = @ + 1], "PlayError")]
              /\ pc' = [pc EXCEPT ![t] = AfterTry(call[t])]
              /\ UNCHANGED sinks
    /\ UNCHANGED <<output, device_present, made>>
    /\ UNCHANGED input_vars

Entry(t) == [source |-> call[t].source, volume |-> call[t].volume,
             by |-> call[t].id]

\* mutant: the loop runs over 0..=n
AppendStepOneMore(t) ==
    /\ pc[t] = "append"
    /\ call[t].i <= call[t].n
    /\ IF Decodes(call[t].source)
         THEN /\ sinks' = [sinks EXCEPT ![call[t].sink].queue =
                              Append(@, Entry(t))]
              /\ call' = [call EXCEPT ![t].i = @ + 1,
                                      ![t].attempts = @ + 1]
              /\ pc' = pc
         ELSE /\ sinks' = [sinks EXCEPT ![call[t].sink].status = "dropped"]
              /\ call' = [call EXCEPT ![t] =
                    Returning([@ EXCEPT !.attempts = @ + 1], "DecoderError")]
              /\ pc' = [pc EXCEPT ![t] = AfterTry(call[t])]
    /\ UNCHANGED <<output, device_present, made>>
    /\ UNCHANGED input_vars

\* mutant: the result of sink.append is discarded instead of propagated
AppendStepIgnoreErr(t) ==
    /\ pc[t] = "append"
    /\ call[t].i < call[t].n
    /\ IF Decodes(call[t].source)
         THEN sinks' = [sinks EXCEPT ![call[t].sink].queue =
                           Append(@, Entry(t))]
         ELSE sinks' = sinks
    /\ call' = [call EXCEPT ![t].i = @ + 1, ![t].attempts = @ + 1]
    /\ pc' = pc
    /\ UNCHANGED <<output, device_present, made>>
    /\ UNCHANGED input_vars

\* one iteration of: for _ in 0..n { sink.append(source, volume)
\*                                       .map_err(OutputError::DecoderError)? }
AppendStep(t) ==
    /\ pc[t] = "append"
    /\ call[t].i < call[t].n
    /\ IF Decodes(call[t].source)
         THEN /\ sinks' = [sinks EXCEPT ![call[t].sink].queue =
                              Append(@, Entry(t))]
              /\ call' = [call EXCEPT ![t].i = @ + 1,
                                      ![t].attempts = @ + 1]
              /\ pc' = pc
         ELSE /\ sinks' = [sinks EXCEPT ![call[t].sink].status = "dropped"]
              /\ call' = [call EXCEPT ![t] =
                    Returning([@ EXCEPT !.attempts = @ + 1], "DecoderError")]
              /\ pc' = [pc EXCEPT ![t] = AfterTry(call[t])]
    /\ UNCHANGED <<output, device_present, made>>
    /\ UNCHANGED input_vars

\* mutant: the sink is dropped at the end of the call instead of detached
DetachStepDrop(t) ==
    /\ pc[t] = "append"
    /\ call[t].i >= call[t].n
    /\ sinks' = [sinks EXCEPT ![call[t].sink].status = "dropped"]
    /\ call' = [call EXCEPT ![t] = Returning(@, "Ok")]
    /\ pc' = [pc EXCEPT ![t] = AfterTry(call[t])]
    /\ UNCHANGED <<output, device_present, made>>
    /\ UNCHANGED input_vars

\* the loop is over: sink.detach(); Ok(())
DetachStep(t) ==
    /\ pc[t] = "append"
    /\ call[t].i >= call[t].n
    /\ sinks' = [sinks EXCEPT ![call[t].sink].status = "detached"]
    /\ call' = [call EXCEPT ![t] =
                  Returning([@ EXCEPT !.detaches = @ + 1], "Ok")]
    /\ pc' = [pc EXCEPT ![t] = AfterTry(call[t])]
    /\ UNCHANGED <<output, device_present, made>>
    /\ UNCHANGED input_vars

\* mutant: the error is dropped without a log line
LogAndReturnQuiet(t) ==
    /\ pc[t] = "wrapper"
    /\ call' = [call EXCEPT ![t].returned = "unit"]
    /\ pc' = [pc EXCEPT ![t] = "returned"]
    /\ UNCHANGED <<output, device_present, sinks, made>>
    /\ UNCHANGED input_vars

\* play_n_times: if let Err(err) = self.try_play_n_times(..) { error!(..) }
LogAndReturn(t) ==
    /\ pc[t] = "wrapper"
    /\ call' = [call EXCEPT ![t].returned = "unit",
                            ![t].logged =
                                IF call[t].try_result # "Ok" THEN @ + 1 ELSE @]
    /\ pc' = [pc EXCEPT ![t] = "returned"]
    /\ UNCHANGED <<output, device_present, sinks, made>>
    /\ UNCHANGED input_vars

\* the output device goes away (the OutputStream is dropped or the device lost)
DeviceLost ==
    /\ device_present
    /\ device_present' = FALSE
    /\ UNCHANGED <<output, sinks, pc, call, made>>
    /\ UNCHANGED input_vars

----------------------------------------------------------------------------
(* Specifications *)

\* init_output(): Output { name: "default", stream_handle }
InitOutput ==
    /\ output = [name |-> "default", stream_handle |-> "default_stream"]
    /\ device_present = TRUE
    /\ sinks = << >>
    /\ pc = [t \in Threads |-> "idle"]
    /\ call = [t \in Threads |-> NoCall]
    /\ made = [t \in Threads |-> 0]

Init ==
    /\ InitOutput
    /\ event = NoEvent
    /\ input_event = NoEvent
    /\ prev_event = NoEvent
    /\ prev_input = NoEvent

Next ==
    \/ \E t \in Threads : TryPlayOnce(t)
    \/ \E t \in Threads : PlayOnce(t)
    \/ \E t \in Threads : PlayNTimes(t)
    \/ \E t \in Threads : TryPlayNTimes(t)
    \/ \E t \in Threads : TrySpawnSink(t)
    \/ \E t \in Threads : AppendStep(t)
    \/ \E t \in Threads : DetachStep(t)
    \/ \E t \in Threads : LogAndReturn(t)
    \/ DeviceLost

Spec == Init /\ [][Next]_vars

\* the controller conversion alone, over every controller event
InitInput ==
    /\ InitOutput
    /\ event \in ControllerEvent
    /\ input_event = NoEvent
    /\ prev_event = NoEvent
    /\ prev_input = NoEvent

NextInput == Receive \/ Convert

SpecInput == InitInput /\ [][NextInput]_vars

----------------------------------------------------------------------------
(* Vocabulary of the properties *)

\* thread t's call has come back to its caller
Finished(t) == pc[t] = "returned"

\* try_play_n_times has returned inside thread t's call
TryDone(t) == call[t].try_result # "none"

\* the call's try_spawn_sink succeeded / failed
SinkCreated(t) == call[t].sink # NoId
SinkFailed(t) == call[t].spawns > 0 /\ call[t].sink = NoId

\* the sink thread t's call created
SinkOf(t) == sinks[call[t].sink]

\* number of appends of the call that went through / that failed
Appended(t) == IF SinkCreated(t) THEN Len(SinkOf(t).queue) ELSE 0
FailedAppends(t) == call[t].attempts - Appended(t)

----------------------------------------------------------------------------
(* Controller event conversion *)

\* C1: InputEvent::from(&c) carries the same `which` and exactly the payload
\* fields of c: axis and value for an axis move, button for a press or a
\* release, nothing more for connected and disconnected.
C1_FieldsPreserved ==
    input_event # NoEvent =>
        /\ input_event.which = event.which
        /\ DOMAIN input_event = DOMAIN event
        /\ event.variant = "ControllerAxisMoved" =>
              /\ input_event.axis = event.axis
              /\ input_event.value = event.value
        /\ event.variant \in {"ControllerButtonPressed",
                              "ControllerButtonReleased"} =>
              input_event.button = event.button
        /\ event.variant \in {"ControllerConnected",
                              "ControllerDisconnected"} =>
              DOMAIN input_event = {"variant", "which"}

C1_Witness ==
    /\ event.variant = "ControllerAxisMoved"
    /\ event.which = 1
    /\ event.value = 32767
    /\ input_event # NoEvent
    /\ prev_event.variant = "ControllerButtonReleased"
    /\ prev_input # NoEvent

\* C2: every controller event is converted, to the input event variant of the
\* same kind, and two different controller events never give the same input
\* event.
C2_SameKindInjective ==
    /\ input_event # NoEvent =>
          /\ input_event.variant = event.variant
          /\ input_event.variant \in
                {"ControllerAxisMoved", "ControllerButtonPressed",
                 "ControllerButtonReleased", "ControllerConnected",
                 "ControllerDisconnected"}
    /\ (input_event # NoEvent /\ prev_input # NoEvent
            /\ input_event = prev_input) => event = prev_event
    /\ (input_event = NoEvent /\ event # NoEvent) => ENABLED Convert

C2_Witness ==
    /\ input_event # NoEvent
    /\ prev_input # NoEvent
    /\ event.variant = "ControllerDisconnected"
    /\ prev_event.variant = "ControllerConnected"
    /\ event.which = prev_event.which

----------------------------------------------------------------------------
(* Result-returning play methods *)

\* C3 as stated: a malformed source played through try_play_once or
\* try_play_n_times, with any n, always returns Err(DecoderError).
C3_MalformedAlwaysDecoderError ==
    \A t \in Threads :
        (Finished(t) /\ call[t].api \in TryApis /\ ~Decodes(call[t].source))
            => call[t].returned = "DecoderError"

\* C3 amended: a malformed source returns Err(DecoderError) when the sink was
\* created and n >= 1, Err(PlayError) when sink creation failed, and Ok(())
\* when the sink was created and n = 0.
C3_MalformedResult ==
    \A t \in Threads :
        (Finished(t) /\ call[t].api \in TryApis /\ ~Decodes(call[t].source))
            => call[t].returned =
                  IF SinkFailed(t) THEN "PlayError"
                  ELSE IF call[t].n = 0 THEN "Ok"
                  ELSE "DecoderError"

C3_Witness ==
    \E t \in Threads :
        /\ Finished(t)
        /\ call[t].api = "try_play_n_times"
        /\ ~Decodes(call[t].source)
        /\ call[t].n = 2
        /\ call[t].returned = "DecoderError"

\* C4 as stated: a well-formed source played through try_play_once or
\* try_play_n_times always returns Ok(()).
C4_WellFormedAlwaysOk ==
    \A t \in Threads :
        (Finished(t) /\ call[t].api \in TryApis /\ Decodes(call[t].source))
            => call[t].returned = "Ok"

\* C4 amended: a well-formed source returns Ok(()) when the sink was created
\* and Err(PlayError) when sink creation failed.
C4_WellFormedResult ==
    \A t \in Threads :
        (Finished(t) /\ call[t].api \in TryApis /\ Decodes(call[t].source))
            => call[t].returned = IF SinkFailed(t) THEN "PlayError" ELSE "Ok"

C4_Witness ==
    \E t \in Threads :
        /\ Finished(t)
        /\ call[t].api = "try_play_n_times"
        /\ Decodes(call[t].source)
        /\ call[t].n = 2
        /\ Appended(t) = 2
        /\ call[t].returned = "Ok"

\* C5 as stated: try_play_n_times with n = 0 appends nothing and returns
\* Ok(()), for every source.
C5_ZeroAlwaysOk ==
    \A t \in Threads :
        (call[t].api = "try_play_n_times" /\ call[t].n = 0) =>
            /\ call[t].attempts = 0
            /\ Finished(t) => call[t].returned = "Ok"

\* C5 amended: try_play_n_times with n = 0 appends nothing, for every source;
\* it returns Ok(()) when the sink was created and Err(PlayError) when sink
\* creation failed.
C5_ZeroAppendsNothing ==
    \A t \in Threads :
        (call[t].api = "try_play_n_times" /\ call[t].n = 0) =>
            /\ call[t].attempts = 0
            /\ Appended(t) = 0
            /\ Finished(t) =>
                  call[t].returned =
                      IF SinkFailed(t) THEN "PlayError" ELSE "Ok"

C5_Witness ==
    \E t \in Threads :
        /\ Finished(t)
        /\ call[t].api = "try_play_n_times"
        /\ call[t].n = 0
        /\ ~Decodes(call[t].source)
        /\ SinkCreated(t)
        /\ SinkOf(t).queue = <<>>
        /\ call[t].returned = "Ok"

----------------------------------------------------------------------------
(* Silent play methods *)

\* what a call did to the audio side, whoever made it
Effects(t) ==
    [result |-> call[t].try_result,
     spawns |-> call[t].spawns,
     attempts |-> call[t].attempts,
     detaches |-> call[t].detaches,
     appended |-> Appended(t),
     status |-> IF SinkCreated(t) THEN SinkOf(t).status ELSE "none"]

\* C6: play_once and play_n_times return unit whatever happens, do what
\* try_play_n_times does with the same arguments (n = 1 for play_once), write
\* one error log line exactly when that call returned Err, and never retry.
C6_SilentApis ==
    /\ \A t \in Threads :
          call[t].api \in SilentApis =>
              /\ call[t].returned \in {"none", "unit"}
              /\ Finished(t) => call[t].returned = "unit"
              /\ call[t].api = "play_once" => call[t].n = 1
              /\ call[t].spawns <= 1
              /\ call[t].attempts <= call[t].n
              /\ FailedAppends(t) <= 1
              /\ call[t].logged <= 1
              /\ Finished(t) =>
                    (call[t].logged = 1 <=>
                        call[t].try_result \in {"DecoderError", "PlayError"})
              /\ ~Finished(t) => call[t].logged = 0
    /\ \A t, u \in Threads :
          ( /\ call[t].api \in SilentApis
            /\ call[u].api \in TryApis
            /\ TryDone(t) /\ TryDone(u)
            /\ call[t].source = call[u].source
            /\ call[t].volume = call[u].volume
            /\ call[t].n = call[u].n
            /\ SinkFailed(t) = SinkFailed(u) )
          => /\ Effects(t) = Effects(u)
             /\ call[u].logged = 0

C6_Witness ==
    \E t, u \in Threads :
        /\ Finished(t) /\ Finished(u)
        /\ call[t].api = "play_n_times"
        /\ call[u].api = "try_play_n_times"
        /\ call[t].n = 2 /\ call[u].n = 2
        /\ call[t].source = call[u].source
        /\ call[t].volume = call[u].volume
        /\ call[t].try_result = "DecoderError"
        /\ call[u].returned = "DecoderError"
        /\ call[t].returned = "unit"
        /\ call[t].logged = 1

----------------------------------------------------------------------------
(* try_play_n_times step by step *)

\* C7: a call whose try_play_n_times returned Ok(()) created exactly one new
\* sink, appended the given source with the given volume to it exactly n
\* times and detached it once, after the n appends; the sink of a call is
\* detached if and only if the call returned Ok(()).
C7_OkMeansPlayedAndDetached ==
    \A t \in Threads :
        /\ call[t].try_result = "Ok" =>
              /\ call[t].spawns = 1
              /\ SinkCreated(t)
              /\ SinkOf(t).owner = call[t].id
              /\ call[t].attempts = call[t].n
              /\ SinkOf(t).queue = [k \in 1..call[t].n |-> Entry(t)]
              /\ call[t].detaches = 1
        /\ SinkCreated(t) =>
              /\ SinkOf(t).status = "detached" <=> call[t].try_result = "Ok"
              /\ SinkOf(t).status = "detached" =>
                    Len(SinkOf(t).queue) = call[t].n
        /\ call[t].detaches > 0 => call[t].try_result = "Ok"

C7_Witness ==
    \E t \in Threads :
        /\ call[t].try_result = "Ok"
        /\ call[t].n = 2
        /\ call[t].volume = 1
        /\ Len(SinkOf(t).queue) = 2
        /\ SinkOf(t).status = "detached"
        /\ call[t].id = <<t, 2>>

\* C8: the first failing append ends the call: when the k-th append is the
\* first to fail, exactly k appends were attempted, none is attempted later,
\* the sink is not detached, and the error returned is the one of that failure.
C8_FirstFailureEndsCall ==
    \A t \in Threads :
        /\ FailedAppends(t) \in {0, 1}
        /\ pc[t] = "append" => FailedAppends(t) = 0
        /\ FailedAppends(t) = 1 =>
              /\ call[t].attempts = Appended(t) + 1
              /\ call[t].attempts <= call[t].n
              /\ pc[t] \in {"wrapper", "returned"}
              /\ call[t].detaches = 0
              /\ SinkOf(t).status = "dropped"
              /\ call[t].try_result = "DecoderError"
              /\ call[t].api \in TryApis => call[t].returned = "DecoderError"

C8_Witness ==
    \E t \in Threads :
        /\ Finished(t)
        /\ call[t].api = "try_play_n_times"
        /\ call[t].n = 2
        /\ call[t].attempts = 1
        /\ FailedAppends(t) = 1
        /\ SinkOf(t).status = "dropped"

\* C9: the error kind names the step that failed: PlayError if and only if
\* sink creation failed, and then nothing was appended or detached;
\* DecoderError if and only if the sink was created and an append failed.
C9_ErrorKindNamesStep ==
    \A t \in Threads :
        /\ call[t].try_result = "PlayError" <=> SinkFailed(t)
        /\ call[t].try_result = "PlayError" =>
              call[t].attempts = 0 /\ call[t].detaches = 0
        /\ call[t].try_result = "DecoderError" <=>
              (SinkCreated(t) /\ FailedAppends(t) > 0)
        /\ (Finished(t) /\ call[t].api \in TryApis) =>
              call[t].returned = call[t].try_result

C9_Witness ==
    \E t, u \in Threads :
        /\ Finished(t) /\ Finished(u)
        /\ call[t].returned = "PlayError"
        /\ call[u].returned = "DecoderError"
        /\ t # u

----------------------------------------------------------------------------
(* Concurrent callers *)

\* C10: with calls running concurrently on one Output, every call uses a sink
\* of its own: no sink holds appends of a call other than the one that
\* created it, a successful call with repeat count n has put exactly n
\* appends on its sink, and the Output's name and stream handle never change.
C10_OwnSinkPerCall ==
    /\ \A s \in DOMAIN sinks :
          \A k \in DOMAIN sinks[s].queue :
              sinks[s].queue[k].by = sinks[s].owner
    /\ \A s, r \in DOMAIN sinks :
          sinks[s].owner = sinks[r].owner => s = r
    /\ \A t \in Threads :
          SinkCreated(t) => SinkOf(t).owner = call[t].id
    /\ \A t, u \in Threads :
          (t # u /\ SinkCreated(t) /\ SinkCreated(u))
              => call[t].sink # call[u].sink
    /\ \A t \in Threads :
          call[t].try_result = "Ok" => Len(SinkOf(t).queue) = call[t].n
    /\ output = [name |-> "default", stream_handle |-> "default_stream"]

C10_Witness ==
    \E t, u \in Threads :
        /\ t # u
        /\ pc[t] = "append" /\ pc[u] = "append"
        /\ call[t].n = 2 /\ call[u].n = 2
        /\ call[t].i = 1 /\ call[u].i = 1
        /\ call[t].api \in SilentApis /\ call[u].api \in TryApis

====
